---- MODULE Spec2Model ----
(***************************************************************************)
(* A model of pyflyby/_cmdline.py: the per-file content cache (Modifier),  *)
(* the action functions and the driver process_actions (Spec), and the     *)
(* action options and defaults of parse_args (ParseSpec).                  *)
(*                                                                         *)
(* Text is modelled as a sequence of tokens; the token "\n" is a line      *)
(* break.  File content is an atom.  A line typed at the query prompt is a *)
(* sequence of characters.                                                 *)
(***************************************************************************)
EXTENDS Integers, Sequences, FiniteSets, TLC

(* ------------------------------ bounds -------------------------------- *)

\* the longest command line (number of filename arguments)
MaxArgs == 2
\* the longest configured action sequence
MaxActions == 2
\* the longest command line (number of options) parse_args is given
MaxOptions == 2
\* the longest comma-separated list given to --actions
MaxActionArgs == 2

(* ------------------------------ values -------------------------------- *)

None == "None"
NL == "\n"

\* Filename.STDIN, the standard-input sentinel
STDIN == "<stdin>"
\* sys.argv[0]
Argv0 == "tidy-imports"

\* the command-line arguments the model draws from: two python files, the
\* argument denoting standard input, and one that denotes no file
FileArgs == {"a.py", "b.py"}
StdinArg == "-"
BadArgs == {"nosuch"}
Args == FileArgs \cup {StdinArg} \cup BadArgs

\* file content: import blocks not yet tidied, and tidied
Contents == {"messy", "tidy"}
InitialDisk == [f \in FileArgs |-> IF f = "a.py" THEN "messy" ELSE "tidy"]
StdinContent == "messy"

\* the injected modify_function: leaves the text alone, tidies it, or raises
Transforms == {"identity", "tidy", "raise"}

ActionKinds == {"PRINT", "REPLACE", "QUERY", "DIFF", "EXECUTE", "IFCHANGED"}

\* what raw_input() can do at the prompt: return a line, hit the end of the
\* input stream, or be interrupted
EOF == <<"EOF">>
INTERRUPT == <<"INTERRUPT">>
Lines == { <<"y">>, <<" ", "Y", "e", "s">>, <<"n", "o">>, <<>> }
Answers == Lines \cup {EOF, INTERRUPT}

\* exit statuses of the external command
ReturnCodes == {0, 1}

RECURSIVE SeqsUpTo(_, _)
SeqsUpTo(S, n) ==
    IF n = 0 THEN { <<>> }
    ELSE LET shorter == SeqsUpTo(S, n - 1)
         IN  shorter \cup { Append(s, x) : s \in {t \in shorter : Len(t) = n - 1}, x \in S }

Range(s) == { s[i] : i \in 1..Len(s) }

(* ----------------------------- exceptions ----------------------------- *)

\* An exception is its class name and its message (a text); code holds the
\* integer a SystemExit was raised with, if it was raised with one.
Exc(type, msg) == [type |-> type, msg |-> msg, code |-> <<>>]
NoExc == Exc("None", <<>>)

\* SystemExit(n)
SystemExit(n) == [type |-> "SystemExit", msg |-> <<>>, code |-> <<n>>]

\* The status the interpreter exits with when exception e leaves the program:
\* the integer of a SystemExit raised with one; 1 for a SystemExit raised
\* with a text (which is printed) and for any other uncaught exception.
ExitStatus(e) == IF e.type = "SystemExit" /\ e.code # <<>> THEN e.code[1] ELSE 1

\* class AbortActions(Exception)
AbortActions == Exc("AbortActions", <<>>)

(* ------------------------------ state --------------------------------- *)

VARIABLES
    argv,             \* the filename arguments handed to process_actions
    actions,          \* the configured action sequence (options.actions)
    modify_function,  \* the injected transform
    DEBUG,            \* the module global set by --debug
    pc,               \* where process_actions is
    filenames,        \* the resolved list the for loop walks
    cur,              \* index in filenames of the file being processed
    ai,               \* index in actions of the next action to call
    errors,           \* the list of error texts
    heap,             \* every Modifier constructed so far; m is heap[cur]
    tmp,              \* every NamedTemporaryFile created so far
    disk,             \* the content of the files on disk
    stdout,           \* what has been written to sys.stdout
    PATH,             \* os.environ['PATH'], as the list of its entries
    exit,             \* how the process ended: the SystemExit value or the exception
    summary,          \* the text of the end-of-run message
    trace,            \* history: every action call, disk write and command run
    parser            \* parse_args: the command line, the terminals, parser.values

vars == <<argv, actions, modify_function, DEBUG, pc, filenames, cur, ai, errors,
          heap, tmp, disk, stdout, PATH, exit, summary, trace, parser>>

inputs == <<argv, actions, modify_function, DEBUG, parser>>

(* ------------------------- external collaborators --------------------- *)

\* isinstance(filename, Filename): a real path is a Filename, the
\* standard-input sentinel is not.
IsFilename(filename) == filename # STDIN

\* str(temp file k's name)
TmpName(k) == "/tmp/tmp" \o ToString(k)

\* modify_function(text): the result, or the exception it raises
Modify(fn, text) ==
    CASE fn = "identity" -> [val |-> text, exc |-> NoExc]
      [] fn = "tidy"     -> [val |-> "tidy", exc |-> NoExc]
      [] OTHER           -> [val |-> None,
                             exc |-> Exc("SyntaxError", <<"invalid syntax", NL, "import">>)]

(* ------------------------------ Modifier ------------------------------ *)

\* @cached_attribute: once the method has returned a value the instance keeps
\* it, and an access returns the kept value without calling the method
cached_attribute(kept) == kept # None

\* A call works on a world w: the Modifier m it is applied to (obj is m's
\* index in the heap), the temp files, the disk, stdout, PATH and the
\* history; val is the value the call returns and exc the exception it
\* raises (NoExc when it returns).

\* Modifier.__init__
Modifier(filename) ==
    [filename |-> filename,
     input_content |-> None,
     output_content |-> None,
     input_content_filename |-> None,
     output_content_filename |-> None,
     tmpfiles |-> <<>>,
     deleted |-> FALSE]

Event(ev, obj, idx, arg) == [ev |-> ev, obj |-> obj, idx |-> idx, arg |-> arg]

Raised(w) == w.exc # NoExc
Return(w, v) == [w EXCEPT !.val = v]
Raise(w, e) == [w EXCEPT !.val = None, !.exc = e]
LogN(w, ev, idx, arg) == [w EXCEPT !.trace = Append(@, Event(ev, w.obj, idx, arg))]
Log(w, ev, arg) == LogN(w, ev, 0, arg)

\* read_file(filename): the content of the source, or IOError when it cannot
\* be read (readOk is the environment's choice)
read_file(w, filename, readOk) ==
    LET w1 == Log(w, "read_file", filename)
    IN  IF readOk
        THEN Return(w1, IF filename = STDIN THEN StdinContent ELSE w1.disk[filename])
        ELSE Raise(w1, Exc("IOError", <<"No such file: ", filename>>))

\* Modifier.input_content with the decorator left out: every access reads
input_content_NotCached(w, readOk) ==
    LET w1 == read_file(w, w.m.filename, readOk)
    IN  IF Raised(w1) THEN w1 ELSE [w1 EXCEPT !.m.input_content = w1.val]

\* Modifier.input_content, a cached_attribute
input_content(w, readOk) ==
    IF cached_attribute(w.m.input_content) THEN Return(w, w.m.input_content)
    ELSE LET w1 == read_file(w, w.m.filename, readOk)
         IN  IF Raised(w1) THEN w1 ELSE [w1 EXCEPT !.m.input_content = w1.val]

\* Modifier.output_content, a cached_attribute
output_content(w, readOk) ==
    IF cached_attribute(w.m.output_content) THEN Return(w, w.m.output_content)
    ELSE LET w1 == input_content(w, readOk)
         IN  IF Raised(w1) THEN w1
             ELSE LET r  == Modify(modify_function, w1.val)
                      w2 == Log(w1, "modify_function", w1.val)
                  IN  IF r.exc # NoExc THEN Raise(w2, r.exc)
                      ELSE [w2 EXCEPT !.m.output_content = r.val, !.val = r.val]

\* Modifier._tempfile: a new NamedTemporaryFile, remembered in _tmpfiles; val
\* is its name
_tempfile(w) ==
    LET k == Len(w.tmp) + 1
    IN  [w EXCEPT !.tmp = Append(@, [owner |-> w.obj, content |-> None,
                                     exists |-> TRUE, closes |-> 0]),
                  !.m.tmpfiles = Append(@, k),
                  !.val = TmpName(k)]

\* Modifier.output_content_filename with the decorator left out: every
\* access runs the method
output_content_filename_NotCached(w, readOk) ==
    LET w1 == _tempfile(w)
        k  == Len(w1.tmp)
        w2 == output_content(w1, readOk)
    IN  IF Raised(w2) THEN w2
        ELSE [w2 EXCEPT !.tmp[k].content = w2.val,
                        !.m.output_content_filename = TmpName(k),
                        !.val = TmpName(k)]

\* Modifier.output_content_filename, a cached_attribute
output_content_filename(w, readOk) ==
    IF cached_attribute(w.m.output_content_filename) THEN Return(w, w.m.output_content_filename)
    ELSE LET w1 == _tempfile(w)
             k  == Len(w1.tmp)
             w2 == output_content(w1, readOk)
         IN  IF Raised(w2) THEN w2
             ELSE [w2 EXCEPT !.tmp[k].content = w2.val,
                             !.m.output_content_filename = TmpName(k),
                             !.val = TmpName(k)]

\* Modifier.input_content_filename with the decorator left out: every access
\* runs the method
input_content_filename_NotCached(w, readOk) ==
    IF IsFilename(w.m.filename)
    THEN [w EXCEPT !.m.input_content_filename = w.m.filename,
                   !.val = w.m.filename]
    ELSE LET w1 == _tempfile(w)
             k  == Len(w1.tmp)
             w2 == input_content(w1, readOk)
         IN  IF Raised(w2) THEN w2
             ELSE [w2 EXCEPT !.tmp[k].content = w2.val,
                             !.m.input_content_filename = TmpName(k),
                             !.val = TmpName(k)]

\* Modifier.input_content_filename without the isinstance test: the input
\* content is copied to a temp file whatever the source is
input_content_filename_AlwaysTemp(w, readOk) ==
    IF cached_attribute(w.m.input_content_filename) THEN Return(w, w.m.input_content_filename)
    ELSE LET w1 == _tempfile(w)
             k  == Len(w1.tmp)
             w2 == input_content(w1, readOk)
         IN  IF Raised(w2) THEN w2
             ELSE [w2 EXCEPT !.tmp[k].content = w2.val,
                             !.m.input_content_filename = TmpName(k),
                             !.val = TmpName(k)]

\* Modifier.input_content_filename, a cached_attribute
input_content_filename(w, readOk) ==
    IF cached_attribute(w.m.input_content_filename) THEN Return(w, w.m.input_content_filename)
    ELSE IF IsFilename(w.m.filename)
         THEN [w EXCEPT !.m.input_content_filename = w.m.filename,
                        !.val = w.m.filename]
         ELSE LET w1 == _tempfile(w)
                  k  == Len(w1.tmp)
                  w2 == input_content(w1, readOk)
              IN  IF Raised(w2) THEN w2
                  ELSE [w2 EXCEPT !.tmp[k].content = w2.val,
                                  !.m.input_content_filename = TmpName(k),
                                  !.val = TmpName(k)]

\* f.close() of a NamedTemporaryFile: the first close deletes the file, a
\* later one does nothing
CloseTmp(t) == IF t.exists THEN [t EXCEPT !.exists = FALSE, !.closes = @ + 1] ELSE t

\* Modifier.__del__ that closes the first file of _tmpfiles only
Modifier__del__FirstOnly(mod, files) ==
    [k \in 1..Len(files) |->
        IF mod.tmpfiles # <<>> /\ k = mod.tmpfiles[1] THEN CloseTmp(files[k]) ELSE files[k]]

\* Modifier.__del__: close every file of _tmpfiles
Modifier__del__(mod, files) ==
    [k \in 1..Len(files) |->
        IF k \in Range(mod.tmpfiles) THEN CloseTmp(files[k]) ELSE files[k]]

(* ------------------------------- text --------------------------------- *)

\* the index of the first line break of text s, 0 if it has none
RECURSIVE FirstNL(_, _)
FirstNL(s, i) ==
    IF i > Len(s) THEN 0 ELSE IF s[i] = NL THEN i ELSE FirstNL(s, i + 1)

\* s.splitlines()
RECURSIVE splitlines(_)
splitlines(s) ==
    IF s = <<>> THEN <<>>
    ELSE LET i == FirstNL(s, 1)
         IN  IF i = 0 THEN <<s>>
             ELSE <<SubSeq(s, 1, i - 1)>> \o splitlines(SubSeq(s, i + 1, Len(s)))

\* sep.join(texts)
RECURSIVE join(_, _)
join(sep, texts) ==
    IF texts = <<>> THEN <<>>
    ELSE IF Len(texts) = 1 THEN texts[1]
    ELSE texts[1] \o sep \o join(sep, Tail(texts))

\* line.strip() for a line of characters
RECURSIVE lstrip(_)
lstrip(s) == IF s # <<>> /\ s[1] = " " THEN lstrip(Tail(s)) ELSE s
RECURSIVE rstrip(_)
rstrip(s) == IF s # <<>> /\ s[Len(s)] = " " THEN rstrip(SubSeq(s, 1, Len(s) - 1)) ELSE s
strip(s) == rstrip(lstrip(s))

\* line.lower()
LowerChar(c) == CASE c = "Y" -> "y" [] c = "N" -> "n" [] c = "E" -> "e"
                  [] c = "S" -> "s" [] c = "O" -> "o" [] OTHER -> c
lower(s) == [i \in 1..Len(s) |-> LowerChar(s[i])]

\* line.startswith(c) for one character c
startswith(s, c) == s # <<>> /\ s[1] = c

(* ------------------------------ actions ------------------------------- *)

\* atomic_write_file(filename, text): the file holds text afterwards, or the
\* write fails and the file is as it was (writeOk is the environment's choice)
atomic_write_file(w, filename, text, writeOk) ==
    LET w1 == Log(w, "atomic_write_file", filename)
    IN  IF writeOk
        THEN [w1 EXCEPT !.disk = [f \in DOMAIN @ \cup {filename} |->
                                        IF f = filename THEN text ELSE @[f]],
                        !.val = None]
        ELSE Raise(w1, Exc("OSError", <<"Permission denied: ", filename>>))

\* action_print(m)
action_print(w, readOk) ==
    LET w1 == output_content(w, readOk)
    IN  IF Raised(w1) THEN w1
        ELSE [w1 EXCEPT !.stdout = Append(@, w1.val), !.val = None]

\* action_ifchanged(m) that logs an unmodified file and does not raise
action_ifchanged_NoRaise(w, readOk) ==
    LET w1 == output_content(w, readOk)
    IN  IF Raised(w1) THEN w1
        ELSE LET w2 == input_content(w1, readOk)
             IN  IF Raised(w2) THEN w2 ELSE Return(w2, None)

\* action_ifchanged(m)
action_ifchanged(w, readOk) ==
    LET w1 == output_content(w, readOk)
    IN  IF Raised(w1) THEN w1
        ELSE LET w2 == input_content(w1, readOk)
             IN  IF Raised(w2) THEN w2
                 ELSE IF w1.val = w2.val THEN Raise(w2, AbortActions)
                 ELSE Return(w2, None)

\* action_replace(m) without the test for standard input
action_replace_NoStdinTest(w, readOk, writeOk) ==
    LET w1 == output_content(w, readOk)
    IN  IF Raised(w1) THEN w1
        ELSE atomic_write_file(w1, w.m.filename, w1.val, writeOk)

\* action_replace(m)
action_replace(w, readOk, writeOk) ==
    IF w.m.filename = STDIN
    THEN Raise(w, Exc("Exception", <<"Can't replace stdio in-place">>))
    ELSE LET w1 == output_content(w, readOk)
         IN  IF Raised(w1) THEN w1
             ELSE atomic_write_file(w1, w.m.filename, w1.val, writeOk)

\* the directory of the script, appended to PATH
Bindir == "/opt/pyflyby/bin"

\* action_external_command(command)(m) with subprocess.check_call in the
\* place of subprocess.call: a status other than 0 raises
action_external_command_CheckCall(w, command, readOk, ret) ==
    LET w0 == [w EXCEPT !.PATH = Append(@, Bindir)]
        w1 == input_content_filename(w0, readOk)
    IN  IF Raised(w1) THEN w1
        ELSE LET w2 == output_content_filename(w1, readOk)
                 w3 == LogN(LogN(LogN(w2, "subprocess.call", ret, command),
                                 "argument", 1, w1.val),
                            "argument", 2, w2.val)
             IN  IF Raised(w2) THEN w2
                 ELSE IF ret # 0 THEN Raise(w3, Exc("CalledProcessError", <<command>>))
                 ELSE Return(w3, None)

\* action_external_command(command)(m) with env a copy of os.environ: the
\* PATH of the process stays as it is
action_external_command_EnvCopy(w, command, readOk, ret) ==
    LET w1 == input_content_filename(w, readOk)
    IN  IF Raised(w1) THEN w1
        ELSE LET w2 == output_content_filename(w1, readOk)
             IN  IF Raised(w2) THEN w2
                 ELSE Return(LogN(LogN(LogN(w2, "subprocess.call", ret, command),
                                       "argument", 1, w1.val),
                                  "argument", 2, w2.val), None)

\* action_external_command(command)(m); ret is what subprocess.call returns
action_external_command(w, command, readOk, ret) ==
    LET w0 == [w EXCEPT !.PATH = Append(@, Bindir)]
        w1 == input_content_filename(w0, readOk)
    IN  IF Raised(w1) THEN w1
        ELSE LET w2 == output_content_filename(w1, readOk)
             IN  IF Raised(w2) THEN w2
                 ELSE Return(LogN(LogN(LogN(w2, "subprocess.call", ret, command),
                                       "argument", 1, w1.val),
                                  "argument", 2, w2.val), None)

\* action_query(prompt)(m); answer is what raw_input() does
action_query(w, answer) ==
    LET w0 == [w EXCEPT !.stdout = @ \o <<NL, "Proceed? [y/N] ">>]
        w1 == Log(w0, "raw_input", answer)
    IN  IF answer = INTERRUPT THEN Raise(w1, SystemExit(1))
        ELSE IF answer = EOF THEN Raise(w1, Exc("EOFError", <<"EOF when reading a line">>))
        ELSE IF startswith(lower(strip(answer)), "y") THEN Return(w1, "True")
        ELSE Raise([w1 EXCEPT !.stdout = Append(@, "Aborted")], AbortActions)

(* ------------------------------- driver ------------------------------- *)

Terminal == {"return", "SystemExit", "raise"}

\* expand_py_files_from_args(args, on_error): the sources the arguments
\* denote, in order; an argument that denotes none is skipped
RECURSIVE expand_py_files_from_args(_)
expand_py_files_from_args(args) ==
    IF args = <<>> THEN <<>>
    ELSE LET a == Head(args)
             rest == expand_py_files_from_args(Tail(args))
         IN  IF a \in BadArgs THEN rest
             ELSE IF a = StdinArg THEN <<STDIN>> \o rest
             ELSE <<a>> \o rest

\* on_error_filename_arg(arg) that reports the argument and appends nothing
on_error_filename_arg_NoAppend(args) == <<>>

\* on_error_filename_arg(arg), for every argument the resolver reports: the
\* texts appended to errors
RECURSIVE on_error_filename_arg(_)
on_error_filename_arg(args) ==
    IF args = <<>> THEN <<>>
    ELSE LET rest == on_error_filename_arg(Tail(args))
         IN  IF Head(args) \in BadArgs
             THEN << <<Head(args), ": bad filename">> >> \o rest
             ELSE rest

\* "%s: %s: %s" % (filename, type(e).__name__, e)
ErrorText(filename, e) == <<filename, ": ", e.type, ": ">> \o e.msg

\* the exception the handler re-raises in debug mode
Rewrap(filename, e) ==
    IF filename \notin Range(e.msg)
    THEN Exc(e.type, <<"While processing ", filename, ": ">> \o e.msg)
    ELSE e

\* the text of one error in the end-of-run message
SummaryEntry(e) ==
    LET lines == splitlines(e)
    IN  <<"    ">> \o lines[1]
        \o join(<<NL>>, [i \in 1..(Len(lines) - 1) |-> <<"            ">> \o lines[i + 1]])

\* the end-of-run message, were it built from the last error alone
SummaryBody_LastOnly(errs) ==
    IF errs = <<>> THEN <<>> ELSE SummaryEntry(errs[Len(errs)])

\* the end-of-run message built from errors
RECURSIVE SummaryBody(_)
SummaryBody(errs) ==
    IF errs = <<>> THEN <<>> ELSE SummaryEntry(Head(errs)) \o SummaryBody(Tail(errs))

Summary(errs) ==
    <<NL, Argv0, ": encountered the following problems:", NL>> \o SummaryBody(errs)

\* raise SystemExit(msg)
ErrorExit(errs) == Exc("SystemExit", Summary(errs))

\* The status the process ends with: that of the exception that left
\* process_actions, 0 when process_actions returned.
ProcessStatus == IF pc = "return" THEN 0 ELSE ExitStatus(exit)

\* the world an action of the current file is called in
World ==
    [m |-> heap[cur], obj |-> cur, tmp |-> tmp, disk |-> disk, stdout |-> stdout,
     PATH |-> PATH, trace |-> trace, val |-> None, exc |-> NoExc]

\* the call actions[ai](m) is about to be made: the world with the call logged
Call(kind) == LogN(World, "action", ai, kind)

\* what the loop does after an exception of class Exception other than
\* AbortActions, with the error handler's continue replaced by break
AfterError_Break ==
    /\ pc' = IF DEBUG THEN "raise" ELSE "for"
    /\ cur' = IF DEBUG THEN cur ELSE Len(filenames)

\* what the loop does after an exception of class Exception other than
\* AbortActions, were DEBUG not tested: continue with the next file
AfterError_Continue ==
    /\ pc' = "for"
    /\ cur' = cur

\* what the loop does after an exception of class Exception other than
\* AbortActions: re-raise in debug mode, else continue with the next file
AfterError ==
    /\ pc' = IF DEBUG THEN "raise" ELSE "for"
    /\ cur' = cur

\* what the loop does after AbortActions, were the exception swallowed inside
\* the inner loop: the next action runs
AfterAbort_NextAction ==
    /\ pc' = IF ai = Len(actions) THEN "for" ELSE "action"
    /\ ai' = ai + 1
    /\ UNCHANGED <<cur, errors, exit>>

\* what the loop does after AbortActions: continue with the next file
AfterAbort ==
    /\ pc' = "for"
    /\ UNCHANGED <<cur, ai, errors, exit>>

\* The rest of one turn of the inner loop, given the world w the call left:
\* the next action, the next file, the error handler or the end of the process.
Dispatch(w) ==
    /\ heap' = [heap EXCEPT ![cur] = w.m]
    /\ tmp' = w.tmp
    /\ disk' = w.disk
    /\ stdout' = w.stdout
    /\ PATH' = w.PATH
    /\ trace' = Append(w.trace, Event("outcome", cur, ai, w.exc.type))
    /\ summary' = summary
    /\ UNCHANGED <<inputs, filenames>>
    /\ CASE w.exc = NoExc ->
              /\ pc' = IF ai = Len(actions) THEN "for" ELSE "action"
              /\ ai' = ai + 1
              /\ UNCHANGED <<cur, errors, exit>>
         [] w.exc = AbortActions -> AfterAbort
         [] w.exc.type = "SystemExit" ->
              /\ pc' = "SystemExit"
              /\ exit' = w.exc
              /\ UNCHANGED <<cur, ai, errors>>
         [] OTHER ->
              /\ errors' = Append(errors, ErrorText(w.m.filename, w.exc))
              /\ exit' = IF DEBUG THEN Rewrap(w.m.filename, w.exc) ELSE exit
              /\ AfterError
              /\ UNCHANGED ai

(* ----------------------------- parse_args ----------------------------- *)

\* One value of the comma-separated list given to --actions is a sequence of
\* tokens: a word, and for QUERY:prompt and EXECUTE:command a ":" and the rest.
ActionArgs ==
    { <<"PRINT">>, <<" replace ">>, <<"Query">>, <<"DIFF">>, <<"ifchanged">>,
      <<"QUERY", ":", "Sure?">>, <<"EXECUTE", ":", "mycommand">>, <<"bogus">> }

\* An option of the command line is its name and its value; the value of
\* an option that takes none is empty.
Flag(name) == <<name, <<>>>>

\* the options that stand for a fixed action sequence
ShortcutOptions ==
    { Flag(name) : name \in {"--print", "--diff", "--replace", "--diff-replace",
                             "--interactive"} }

\* --actions=v1,v2,..., after value.split(',')
ActionsOptions ==
    { <<"--actions", vs>> : vs \in SeqsUpTo(ActionArgs, MaxActionArgs) \ { <<>> } }

\* the command-line options the model draws from
Options == ShortcutOptions \cup ActionsOptions \cup {Flag("--debug"), Flag("--verbose")}

\* v.strip().upper() for the first word of a value
StripUpper(word) ==
    CASE word = " replace " -> "REPLACE"
      [] word = "Query"     -> "QUERY"
      [] word = "ifchanged" -> "IFCHANGED"
      [] OTHER              -> word

\* parse_action(v): the action the value denotes, None where the code raises
parse_action(v) ==
    LET V == StripUpper(v[1])
    IN  IF Len(v) = 1
        THEN IF V \in {"PRINT", "REPLACE", "QUERY", "DIFF", "IFCHANGED"} THEN V ELSE None
        ELSE IF V \in {"QUERY", "EXECUTE"} /\ v[2] = ":" THEN V
        ELSE None

\* actions_interactive
actions_interactive == <<"IFCHANGED", "DIFF", "QUERY", "REPLACE">>

\* action_callbacker(actions) for each option that stands for a fixed sequence
Shortcut(option) ==
    CASE option[1] = "--print"        -> <<"PRINT">>
      [] option[1] = "--diff"         -> <<"DIFF">>
      [] option[1] = "--replace"      -> <<"IFCHANGED", "REPLACE">>
      [] option[1] = "--diff-replace" -> <<"IFCHANGED", "DIFF", "REPLACE">>
      [] option[1] = "--interactive"  -> actions_interactive

\* default_actions, were it [action_print] whatever the terminals are
default_actions_Print(isatty) == <<"PRINT">>

\* default_actions: interactive when os.isatty(0) and os.isatty(1)
default_actions(isatty) ==
    IF isatty[1] /\ isatty[2] THEN actions_interactive ELSE <<"PRINT">>

\* the value of --actions that denotes the action kind
ArgOf(kind) == IF kind = "EXECUTE" THEN <<"EXECUTE", ":", "mycommand">> ELSE <<kind>>

\* The parser after parse_args has returned for a command line that names
\* the actions acts with --actions (and has --debug when debug is set), run
\* with standard input a terminal or not and standard output not a terminal.
Parsed(acts, debug, tty0) ==
    LET cmdline == (IF debug THEN <<Flag("--debug")>> ELSE <<>>)
                   \o << <<"--actions", [j \in 1..Len(acts) |-> ArgOf(acts[j])]>> >>
    IN  [pc |-> "done", cmdline |-> cmdline, i |-> Len(cmdline) + 1,
         isatty |-> <<tty0, FALSE>>, actions |-> acts, exc |-> NoExc]

(* ---------------------------- specification --------------------------- *)

Init ==
    /\ argv \in SeqsUpTo(Args, MaxArgs)
    /\ actions \in SeqsUpTo(ActionKinds, MaxActions) \ { <<>> }
    /\ modify_function \in Transforms
    /\ DEBUG \in BOOLEAN
    /\ pc = "start"
    /\ filenames = <<>>
    /\ cur = 0
    /\ ai = 0
    /\ errors = <<>>
    /\ heap = <<>>
    /\ tmp = <<>>
    /\ disk = InitialDisk
    /\ stdout = <<>>
    /\ PATH = <<"/usr/bin">>
    /\ exit = NoExc
    /\ summary = <<>>
    /\ trace = <<>>
    /\ parser \in { Parsed(actions, DEBUG, tty0) :
                       tty0 \in IF argv = <<>> THEN BOOLEAN ELSE {FALSE} }

\* filenames = filename_args(filenames, on_error=on_error_filename_arg)
FilenameArgs ==
    /\ pc = "start"
    /\ \E isatty \in {parser.isatty[1]} :
         IF argv # <<>>
         THEN /\ filenames' = expand_py_files_from_args(argv)
              /\ errors' = on_error_filename_arg(argv)
              /\ pc' = "for"
              /\ exit' = exit
         ELSE IF ~isatty
         THEN /\ filenames' = <<STDIN>>
              /\ pc' = "for"
              /\ UNCHANGED <<errors, exit>>
         ELSE \* syntax()
              /\ pc' = "SystemExit"
              /\ exit' = SystemExit(1)
              /\ UNCHANGED <<filenames, errors>>
    /\ UNCHANGED <<inputs, cur, ai, heap, tmp, disk, stdout, PATH, summary, trace>>

\* for filename in filenames: m = Modifier(modify_function, filename)
NextFile ==
    /\ pc = "for"
    /\ cur < Len(filenames)
    /\ cur' = cur + 1
    /\ heap' = Append(heap, Modifier(filenames[cur + 1]))
    /\ ai' = 1
    /\ pc' = "action"
    /\ trace' = Append(trace, Event("Modifier", cur + 1, 0, filenames[cur + 1]))
    /\ UNCHANGED <<inputs, filenames, errors, tmp, disk, stdout, PATH, exit, summary>>

\* the loop is over: raise SystemExit(msg) if errors, else return
Finish ==
    /\ pc = "for"
    /\ cur = Len(filenames)
    /\ IF errors # <<>>
       THEN /\ summary' = Summary(errors)
            /\ exit' = ErrorExit(errors)
            /\ pc' = "SystemExit"
       ELSE /\ pc' = "return"
            /\ UNCHANGED <<summary, exit>>
    /\ UNCHANGED <<inputs, filenames, cur, ai, errors, heap, tmp, disk, stdout, PATH, trace>>

RunPrint ==
    /\ pc = "action"
    /\ actions[ai] = "PRINT"
    /\ \E readOk \in BOOLEAN : Dispatch(action_print(Call("PRINT"), readOk))

RunIfChanged ==
    /\ pc = "action"
    /\ actions[ai] = "IFCHANGED"
    /\ \E readOk \in BOOLEAN : Dispatch(action_ifchanged(Call("IFCHANGED"), readOk))

RunReplace ==
    /\ pc = "action"
    /\ actions[ai] = "REPLACE"
    /\ \E readOk, writeOk \in BOOLEAN :
         Dispatch(action_replace(Call("REPLACE"), readOk, writeOk))

RunDiff ==
    /\ pc = "action"
    /\ actions[ai] = "DIFF"
    /\ \E readOk \in BOOLEAN, ret \in ReturnCodes :
         Dispatch(action_external_command(Call("DIFF"), "pyflyby-diff", readOk, ret))

RunExecute ==
    /\ pc = "action"
    /\ actions[ai] = "EXECUTE"
    /\ \E readOk \in BOOLEAN, ret \in ReturnCodes :
         Dispatch(action_external_command(Call("EXECUTE"), "mycommand", readOk, ret))

RunQuery ==
    /\ pc = "action"
    /\ actions[ai] = "QUERY"
    /\ \E answer \in Answers : Dispatch(action_query(Call("QUERY"), answer))

\* The Modifier of an earlier file is no longer the loop's m, and after the
\* end of the function none is.
Unreferenced(i) == i < cur \/ pc \in Terminal

\* The garbage collector finalizes an unreferenced Modifier: __del__ runs.
\* The language does not say when, nor that it does before the process ends.
Del(i) ==
    /\ Unreferenced(i)
    /\ ~heap[i].deleted
    /\ tmp' = Modifier__del__(heap[i], tmp)
    /\ heap' = [heap EXCEPT ![i].deleted = TRUE]
    /\ UNCHANGED <<inputs, pc, filenames, cur, ai, errors, disk, stdout, PATH, exit,
                   summary, trace>>

Collect == \E i \in 1..Len(heap) : Del(i)

Next ==
    \/ FilenameArgs
    \/ NextFile
    \/ Finish
    \/ RunPrint
    \/ RunIfChanged
    \/ RunReplace
    \/ RunDiff
    \/ RunExecute
    \/ RunQuery
    \/ Collect

Spec == Init /\ [][Next]_vars

(* ----------------------- specification of parse_args ------------------- *)

\* what process_actions works on, untouched while the command line is parsed
processVars == <<argv, modify_function, filenames, cur, ai, errors, heap, tmp, disk,
                 stdout, PATH, exit, summary, trace>>

ParseInit ==
    /\ parser \in [pc : {"set_default"}, cmdline : SeqsUpTo(Options, MaxOptions),
                   i : {1}, isatty : BOOLEAN \X BOOLEAN, actions : { <<>> },
                   exc : {NoExc}]
    /\ pc = "parse_args"
    /\ DEBUG = FALSE
    /\ actions = <<>>
    /\ argv = <<>>
    /\ modify_function = "identity"
    /\ filenames = <<>>
    /\ cur = 0
    /\ ai = 0
    /\ errors = <<>>
    /\ heap = <<>>
    /\ tmp = <<>>
    /\ disk = InitialDisk
    /\ stdout = <<>>
    /\ PATH = <<"/usr/bin">>
    /\ exit = NoExc
    /\ summary = <<>>
    /\ trace = <<>>

\* the option optparse handles next
Option == parser.cmdline[parser.i]

\* parser.set_default('actions', tuple(default_actions))
SetDefault ==
    /\ parser.pc = "set_default"
    /\ parser' = [parser EXCEPT !.pc = "options", !.actions = default_actions(parser.isatty)]
    /\ UNCHANGED <<pc, DEBUG, actions, processVars>>

\* action_callback: set_actions([parse_action(v) for v in value.split(',')])
ActionCallback ==
    /\ parser.pc = "options"
    /\ parser.i <= Len(parser.cmdline)
    /\ Option \in ActionsOptions
    /\ LET parsed == [j \in 1..Len(Option[2]) |-> parse_action(Option[2][j])]
       IN  IF None \in Range(parsed)
           THEN parser' = [parser EXCEPT !.pc = "raise",
                                         !.exc = Exc("Exception", <<"Bad argument to --action">>)]
           ELSE parser' = [parser EXCEPT !.i = @ + 1, !.actions = parsed]
    /\ UNCHANGED <<pc, DEBUG, actions, processVars>>

\* action_callbacker(actions): set_actions(actions)
ActionCallbacker ==
    /\ parser.pc = "options"
    /\ parser.i <= Len(parser.cmdline)
    /\ Option \in ShortcutOptions
    /\ parser' = [parser EXCEPT !.i = @ + 1, !.actions = Shortcut(Option)]
    /\ UNCHANGED <<pc, DEBUG, actions, processVars>>

\* debug_callback: DEBUG = True
DebugCallback ==
    /\ parser.pc = "options"
    /\ parser.i <= Len(parser.cmdline)
    /\ Option = Flag("--debug")
    /\ DEBUG' = TRUE
    /\ parser' = [parser EXCEPT !.i = @ + 1]
    /\ UNCHANGED <<pc, actions, processVars>>

\* log_level_callbacker("DEBUG"): the log level only
VerboseCallback ==
    /\ parser.pc = "options"
    /\ parser.i <= Len(parser.cmdline)
    /\ Option = Flag("--verbose")
    /\ parser' = [parser EXCEPT !.i = @ + 1]
    /\ UNCHANGED <<pc, DEBUG, actions, processVars>>

\* options, args = parser.parse_args(): options.actions is what the caller
\* hands to process_actions
ParseDone ==
    /\ parser.pc = "options"
    /\ parser.i > Len(parser.cmdline)
    /\ parser' = [parser EXCEPT !.pc = "done"]
    /\ actions' = parser.actions
    /\ pc' = "start"
    /\ UNCHANGED <<DEBUG, processVars>>

ParseNext ==
    \/ SetDefault
    \/ ActionCallback
    \/ ActionCallbacker
    \/ DebugCallback
    \/ VerboseCallback
    \/ ParseDone

ParseSpec == ParseInit /\ [][ParseNext]_vars

(* --------------------------- reading the history ---------------------- *)

\* the positions in the history of the events of kind ev about Modifier i
EventsOf(ev, i) == { p \in 1..Len(trace) : trace[p].ev = ev /\ trace[p].obj = i }

\* the classes an action call can leave with: it returned, it aborted, it
\* ended the process, or (anything else) it failed
Failure(type) == type \notin {"None", "AbortActions", "SystemExit"}

\* running the actions on the i-th file raised an error
Failed(i) == \E p \in EventsOf("outcome", i) : Failure(trace[p].arg)
Aborted(i) == \E p \in EventsOf("outcome", i) : trace[p].arg = "AbortActions"
Interrupted == \E p \in 1..Len(trace) : trace[p].ev = "outcome" /\ trace[p].arg = "SystemExit"

\* the first action of the i-th file was called
Started(i) == \E p \in EventsOf("action", i) : trace[p].idx = 1

\* the errors entries that start with the name f
EntriesNaming(f) == { k \in 1..Len(errors) : errors[k][1] = f }

\* process_actions ended after its loop went through every file
RunOver == pc \in {"return", "SystemExit"} /\ ~Interrupted /\ (argv # <<>> \/ filenames # <<>>)

(* ------------------------------- claims ------------------------------- *)

\* C1: in a run without --debug, every file whose actions raised an error has
\* exactly one errors entry naming it (a name given twice has one entry per
\* failed run), a file whose actions did not fail has none, and the loop still
\* reaches every later file: when process_actions ends after an error, the
\* first action of every resolved file has been called.
C1_ErrorIsolation ==
    ~DEBUG =>
      /\ \A f \in Range(filenames) :
           Cardinality(EntriesNaming(f))
             = Cardinality({ i \in 1..Len(heap) : heap[i].filename = f /\ Failed(i) })
      /\ RunOver => \A i \in 1..Len(filenames) : Started(i)

\* C1's case: the first of several files failed, the second was processed
\* and did not fail, and the run ended with the one entry.
C1_Witness ==
    /\ ~DEBUG
    /\ RunOver
    /\ Len(filenames) = 2
    /\ Failed(1)
    /\ ~Failed(2)
    /\ filenames[1] # filenames[2]
    /\ EntriesNaming(filenames[1]) = {1}
    /\ EntriesNaming(filenames[2]) = {}

\* C2: the calls made on a file are actions[1], actions[2], ... in that order;
\* once a call has aborted or failed no further action is called on that
\* file; an abort adds nothing to errors (errors holds the bad-filename
\* entries and one entry per failed call, nothing else) and after it the loop
\* goes to the next file, or ends when there is none.
C2_OrderAndAbort ==
    /\ \A i \in 1..Len(heap) :
         /\ \A p \in EventsOf("action", i) :
              /\ trace[p].idx = 1 + Cardinality({ q \in EventsOf("action", i) : q < p })
              /\ trace[p].arg = actions[trace[p].idx]
         /\ \A p \in EventsOf("outcome", i) :
              trace[p].arg # "None" => \A q \in EventsOf("action", i) : q < p
         /\ \A p \in EventsOf("outcome", i) :
              trace[p].arg = "AbortActions" =>
                IF p < Len(trace)
                THEN trace[p + 1] = Event("Modifier", i + 1, 0, filenames[i + 1])
                ELSE \/ pc = "for" /\ cur = i
                     \/ pc \in {"return", "SystemExit"} /\ i = Len(filenames)
    /\ pc # "start" =>
         Len(errors) = Len(on_error_filename_arg(argv))
                       + Cardinality({ p \in 1..Len(trace) :
                                         trace[p].ev = "outcome" /\ Failure(trace[p].arg) })

\* C2's case: the first of two actions aborted on the first file, the second
\* action was not called on it, the second file was processed and errors is
\* empty at the end.
C2_Witness ==
    /\ RunOver
    /\ Len(actions) = 2
    /\ Len(filenames) = 2
    /\ \E p \in EventsOf("outcome", 1) : trace[p].arg = "AbortActions" /\ trace[p].idx = 1
    /\ Cardinality(EventsOf("action", 1)) = 1
    /\ Cardinality(EventsOf("action", 2)) = 2
    /\ errors = <<>>

\* in the configured sequence an IFCHANGED comes before the first REPLACE
IfChangedPrecedesReplace ==
    \A j \in 1..Len(actions) :
      actions[j] = "REPLACE" => \E k \in 1..(j - 1) : actions[k] = "IFCHANGED"

\* C3: when if-changed precedes replace in the action sequence, a file whose
\* output content equals its input content never has the replace action
\* called on it and is never written by atomic_write_file.
C3_UnchangedNeverReplaced ==
    IfChangedPrecedesReplace =>
      \A i \in 1..Len(heap) :
        (heap[i].output_content # None /\ heap[i].output_content = heap[i].input_content) =>
          /\ \A p \in EventsOf("action", i) : trace[p].arg # "REPLACE"
          /\ EventsOf("atomic_write_file", i) = {}

\* C3's case: IFCHANGED, REPLACE ran to the end on a real file that the
\* transform left as it was.
C3_Witness ==
    /\ actions = <<"IFCHANGED", "REPLACE">>
    /\ RunOver
    /\ Len(heap) >= 1
    /\ heap[1].filename # STDIN
    /\ heap[1].output_content # None
    /\ heap[1].output_content = heap[1].input_content
    /\ Aborted(1)
    /\ disk = InitialDisk

\* C4: every call of the replace action on the standard-input sentinel ends
\* with an Exception, which is in errors as an entry for the sentinel, and
\* atomic_write_file is never called for a Modifier of the sentinel: nothing
\* is written, whatever was read and whatever the transform returned.
C4_ReplaceOnStdinFails ==
    /\ STDIN \notin DOMAIN disk
    /\ \A i \in 1..Len(heap) :
         heap[i].filename = STDIN =>
           /\ EventsOf("atomic_write_file", i) = {}
           /\ \A p \in EventsOf("outcome", i) :
                actions[trace[p].idx] = "REPLACE" =>
                  /\ trace[p].arg = "Exception"
                  /\ \E k \in 1..Len(errors) :
                       errors[k] = ErrorText(STDIN, Exc("Exception", <<"Can't replace stdio in-place">>))

\* C4's case: replace was called on the sentinel after the output content
\* had been computed (and differed from the input).
C4_Witness ==
    /\ actions = <<"PRINT", "REPLACE">>
    /\ Len(heap) >= 1
    /\ heap[1].filename = STDIN
    /\ heap[1].output_content = "tidy"
    /\ heap[1].input_content = "messy"
    /\ \E p \in EventsOf("outcome", 1) : trace[p].idx = 2
    /\ EntriesNaming(STDIN) # {}

\* text holds the tokens of part, in order and next to each other
Contains(text, part) ==
    \E o \in 0..(Len(text) - Len(part)) : SubSeq(text, o + 1, o + Len(part)) = part

\* C5: when process_actions ends after its loop went through every file, the
\* exit status is a failure exactly when errors is not empty, errors is not
\* empty exactly when a file failed or an argument was a bad filename, and the
\* one message raised holds every line of every entry of errors.
C5_ExitReflectsErrors ==
    RunOver =>
      /\ (ProcessStatus # 0) <=> (errors # <<>>)
      /\ (errors # <<>>) <=> \/ \E i \in 1..Len(heap) : Failed(i)
                             \/ \E a \in Range(argv) : a \in BadArgs
      /\ errors # <<>> =>
           /\ exit.msg = summary
           /\ \A k \in 1..Len(errors) :
                \A n \in 1..Len(splitlines(errors[k])) :
                  Contains(summary, splitlines(errors[k])[n])

\* C5's case: a run that recorded a bad filename argument and then a failure
\* whose text has several lines, and ended with the summary.
C5_Witness ==
    /\ RunOver
    /\ pc = "SystemExit"
    /\ Len(errors) = 2
    /\ errors[1] = <<"nosuch", ": bad filename">>
    /\ Len(splitlines(errors[2])) = 2
    /\ ProcessStatus = 1

\* C6: on one Modifier read_file is called at most once and modify_function
\* at most once, however many actions ask for the contents; modify_function
\* is called only after the read, with the text that was read; and from then
\* on input_content is that text and output_content is what the one call
\* returned, so every later access gets the first values.
C6_Memoized ==
    \A i \in 1..Len(heap) :
      /\ Cardinality(EventsOf("read_file", i)) <= 1
      /\ Cardinality(EventsOf("modify_function", i)) <= 1
      /\ heap[i].input_content # None => EventsOf("read_file", i) # {}
      /\ \A p \in EventsOf("modify_function", i) :
           /\ \E q \in EventsOf("read_file", i) : q < p
           /\ heap[i].input_content = trace[p].arg
      /\ heap[i].output_content # None =>
           /\ EventsOf("modify_function", i) # {}
           /\ heap[i].output_content = Modify(modify_function, heap[i].input_content).val

\* C6's case: replace wrote the tidied text to the file and if-changed then
\* asked for both contents again: it got the text read before the write, so
\* it did not abort.
C6_Witness ==
    /\ actions = <<"REPLACE", "IFCHANGED">>
    /\ Len(heap) >= 1
    /\ heap[1].filename = "a.py"
    /\ heap[1].input_content = "messy"
    /\ heap[1].output_content = "tidy"
    /\ disk["a.py"] = "tidy"
    /\ \E p \in EventsOf("outcome", 1) : trace[p].idx = 2 /\ trace[p].arg = "None"
    /\ Cardinality(EventsOf("read_file", 1)) = 1

\* the temp files created through Modifier i
TmpFilesOf(i) == { k \in 1..Len(tmp) : tmp[k].owner = i }

\* The run is at rest: process_actions has ended and no finalizer is left to
\* run.  (Before its end process_actions always has a next step.)
AtRest == pc \in Terminal /\ ~ENABLED Collect

Affirmative(answer) == answer \in Lines /\ startswith(lower(strip(answer)), "y")

\* C8: the query action returns (so the next action runs) only when the line
\* read, stripped and lower-cased, starts with "y"; after any other line and
\* at the end of the input stream it raises AbortActions, which is not an
\* error.  (An interrupt is not covered here.)
C8_QueryAbortsUnlessYes ==
    \A p \in 1..Len(trace) :
      (trace[p].ev = "raw_input" /\ trace[p].arg # INTERRUPT) =>
        /\ p < Len(trace)
        /\ trace[p + 1].ev = "outcome"
        /\ trace[p + 1].arg = IF Affirmative(trace[p].arg) THEN "None" ELSE "AbortActions"

\* C9: after an interrupt at the prompt the process has ended with nothing
\* called since, and its exit status differs from the status process_actions
\* ends with when errors were recorded.
C9_InterruptExitsDistinct ==
    Interrupted =>
      /\ pc = "SystemExit"
      /\ trace[Len(trace)] = Event("outcome", cur, ai, "SystemExit")
      /\ ExitStatus(exit) # ExitStatus(ErrorExit(errors))

OutputTmpFilesOf(i) ==
    { k \in TmpFilesOf(i) : TmpName(k) # heap[i].input_content_filename }

\* C11: every output path handed to an external command is the Modifier's
\* one output_content_filename; that path is the name of a temp file of the
\* Modifier which holds the output content, and is neither the source's own
\* path nor the input path; and a Modifier never has more than one temp file
\* besides the one for its input.
C11_OutputPath ==
    \A i \in 1..Len(heap) :
      /\ \A p \in EventsOf("argument", i) :
           trace[p].idx = 2 =>
             /\ trace[p].arg = heap[i].output_content_filename
             /\ trace[p].arg # heap[i].filename
             /\ trace[p].arg # trace[p - 1].arg
      /\ heap[i].output_content_filename # None =>
           /\ heap[i].output_content_filename # heap[i].filename
           /\ heap[i].output_content # None
           /\ \E k \in TmpFilesOf(i) :
                /\ heap[i].output_content_filename = TmpName(k)
                /\ tmp[k].content = heap[i].output_content
                /\ tmp[k].exists <=> ~heap[i].deleted
      /\ Cardinality(OutputTmpFilesOf(i)) <= 1

\* C11's case: two external commands ran on a.py; both got the path of the
\* one temp file, which holds the tidied text while a.py is as it was.
C11_Witness ==
    /\ actions = <<"DIFF", "EXECUTE">>
    /\ Len(heap) >= 1
    /\ heap[1].filename = "a.py"
    /\ Cardinality({ p \in EventsOf("argument", 1) : trace[p].idx = 2 }) = 2
    /\ \A p \in EventsOf("argument", 1) : trace[p].idx = 2 => trace[p].arg = TmpName(1)
    /\ tmp[1].content = "tidy"
    /\ disk["a.py"] = "messy"
    /\ TmpFilesOf(1) = {1}

\* the actions that ask a Modifier for a filesystem path
PathActions == {"DIFF", "EXECUTE"}

\* the world in which an attribute of Modifier i is requested now
WorldOf(i) ==
    [m |-> heap[i], obj |-> i, tmp |-> tmp, disk |-> disk, stdout |-> stdout,
     PATH |-> PATH, trace |-> trace, val |-> None, exc |-> NoExc]

\* C12: a temp file exists only through an action that asks for a path: with
\* an action sequence of print, if-changed, replace and query only, no temp
\* file is ever created, and any temp file belongs to a Modifier on which
\* DIFF or EXECUTE was called.  On a Modifier of a real file path, a request
\* for the input path (in whatever state the Modifier is) returns the file's
\* own path and creates no temp file, every input path handed to an external
\* command is that path, and the Modifier's only temp file is the one made
\* for the output.
C12_TempOnlyForPath ==
    /\ Range(actions) \cap PathActions = {} => tmp = <<>>
    /\ \A k \in 1..Len(tmp) :
         \E p \in EventsOf("action", tmp[k].owner) : trace[p].arg \in PathActions
    /\ \A i \in 1..Len(heap) :
         IsFilename(heap[i].filename) =>
           /\ \A readOk \in BOOLEAN :
                LET w == input_content_filename(WorldOf(i), readOk)
                IN  /\ ~Raised(w)
                    /\ w.val = heap[i].filename
                    /\ w.tmp = tmp
                    /\ w.m.tmpfiles = heap[i].tmpfiles
           /\ \A p \in EventsOf("argument", i) :
                trace[p].idx = 1 => trace[p].arg = heap[i].filename
           /\ heap[i].input_content_filename \in {None, heap[i].filename}
           /\ Cardinality(TmpFilesOf(i)) <= 1

\* C12's case: DIFF ran on a.py after PRINT: the command got a.py itself as
\* the input path, and the one temp file, created by DIFF and not by PRINT,
\* is the output's.
C12_Witness ==
    /\ actions = <<"PRINT", "DIFF">>
    /\ Len(heap) >= 1
    /\ heap[1].filename = "a.py"
    /\ \E p \in EventsOf("argument", 1) : trace[p].idx = 1 /\ trace[p].arg = "a.py"
    /\ heap[1].input_content_filename = "a.py"
    /\ TmpFilesOf(1) = {1}
    /\ heap[1].output_content_filename = TmpName(1)
    /\ stdout = <<"tidy">>

\* how many times the name f occurs in text
Occurrences(text, f) == Cardinality({ j \in 1..Len(text) : text[j] = f })

\* the errors entries recorded by the except Exception handler: those after
\* the entries of the bad filename arguments
PerFileErrors == { k \in 1..Len(errors) : k > Len(on_error_filename_arg(argv)) }

\* the file the k-th errors entry was recorded for
FileOfError(k) == errors[k][1]

\* C13: in every entry of errors recorded for a failed file, the filename
\* occurs exactly once, whether or not the message of the exception held it.
C13_FilenameOnce ==
    pc # "start" =>
      \A k \in PerFileErrors : Occurrences(errors[k], FileOfError(k)) = 1

\* the positions in argv of the arguments that denote no file
BadPositions == { j \in 1..Len(argv) : argv[j] \in BadArgs }

\* C14: once the arguments are resolved, errors holds one entry
\* "<arg>: bad filename" for every argument that denotes no file, in the
\* same list the per-file failures are appended to; every other argument,
\* also one after a bad one, has been resolved to a file; and when the loop
\* has gone through the files, every resolved file has been processed and
\* the run has ended with SystemExit.  The run ends with a failure status
\* whichever way it ends, and it ends before the last file only by an
\* interrupt or, in debug mode, by the failure of a file.
C14_BadFilenameRecorded ==
    (pc # "start" /\ BadPositions # {}) =>
      /\ \A a \in BadArgs :
           Cardinality({ k \in 1..Len(errors) : errors[k] = <<a, ": bad filename">> })
             = Cardinality({ j \in BadPositions : argv[j] = a })
      /\ Len(filenames) = Len(argv) - Cardinality(BadPositions)
      /\ \A j \in 1..Len(argv) :
           j \notin BadPositions =>
             filenames[j - Cardinality({ b \in BadPositions : b < j })]
               = IF argv[j] = StdinArg THEN STDIN ELSE argv[j]
      /\ Len(errors) = Cardinality(BadPositions)
                         + Cardinality({ p \in 1..Len(trace) :
                                           trace[p].ev = "outcome" /\ Failure(trace[p].arg) })
      /\ pc = "raise" => DEBUG /\ Failed(cur)
      /\ pc \in Terminal => ProcessStatus # 0
      /\ RunOver =>
           /\ \A i \in 1..Len(filenames) : Started(i)
           /\ pc = "SystemExit"

\* C14's case: the first argument denotes no file, the second is a.py: a.py
\* was processed without failure and the run ended with status 1 and the
\* one entry.
C14_Witness ==
    /\ argv = <<"nosuch", "a.py">>
    /\ filenames = <<"a.py">>
    /\ RunOver
    /\ Started(1)
    /\ ~Failed(1)
    /\ errors = << <<"nosuch", ": bad filename">> >>
    /\ pc = "SystemExit"
    /\ ProcessStatus = 1

\* C15: with --debug, when the actions of a file have raised an error the
\* run is over at once: process_actions has been left by that exception
\* (worded so that it names the file), the failed call is the last thing
\* that happened, no Modifier of a later file was made, and no end-of-run
\* message was built.  An abort in this mode does not end the run: the next
\* thing that happens is the next file, or the normal end of the loop.
C15_DebugFailFast ==
    DEBUG =>
      /\ \A i \in 1..Len(heap) :
           Failed(i) =>
             /\ pc = "raise"
             /\ cur = i
             /\ Len(heap) = i
             /\ trace[Len(trace)].ev = "outcome"
             /\ trace[Len(trace)].obj = i
             /\ exit.type = trace[Len(trace)].arg
             /\ heap[i].filename \in Range(exit.msg)
             /\ summary = <<>>
      /\ pc = "raise" => Failed(cur)
      /\ \A i \in 1..Len(heap) :
           \A p \in EventsOf("outcome", i) :
             trace[p].arg = "AbortActions" =>
               IF p < Len(trace)
               THEN trace[p + 1] = Event("Modifier", i + 1, 0, filenames[i + 1])
               ELSE /\ pc \in {"for", "return", "SystemExit"}
                    /\ pc = "SystemExit" => exit = ErrorExit(errors)

\* C15's case: with --debug and two files, the second action of the first
\* file failed: the run ended there, the second file was never touched.
C15_Witness ==
    /\ DEBUG
    /\ Len(filenames) = 2
    /\ Len(actions) = 2
    /\ \E p \in EventsOf("outcome", 1) : trace[p].idx = 2 /\ Failure(trace[p].arg)
    /\ pc = "raise"
    /\ Len(heap) = 1
    /\ errors # <<>>
    /\ summary = <<>>

\* the positions in the history at which an external command returned
CommandRuns == { p \in 1..Len(trace) : trace[p].ev = "subprocess.call" }

\* C16: whatever status the external command of a DIFF or EXECUTE action
\* returns, the action returns normally: its outcome is neither an abort nor
\* an error, the next action of the sequence (if there is one) is the next
\* thing called on the file, and errors holds nothing but the bad-filename
\* entries and one entry per call that did fail.
C16_StatusOnlyLogged ==
    /\ \A p \in CommandRuns :
         LET i == trace[p].obj
         IN  /\ trace[p].idx \in ReturnCodes
             /\ p + 3 <= Len(trace)
             /\ trace[p + 3].ev = "outcome"
             /\ trace[p + 3].obj = i
             /\ trace[p + 3].arg = "None"
             /\ actions[trace[p + 3].idx] \in PathActions
             /\ trace[p + 3].idx < Len(actions) =>
                  IF p + 3 < Len(trace)
                  THEN trace[p + 4] = Event("action", i, trace[p + 3].idx + 1,
                                            actions[trace[p + 3].idx + 1])
                  ELSE pc = "action" /\ cur = i /\ ai = trace[p + 3].idx + 1
    /\ pc # "start" =>
         Len(errors) = Cardinality(BadPositions)
                       + Cardinality({ p \in 1..Len(trace) :
                                         /\ trace[p].ev = "outcome"
                                         /\ Failure(trace[p].arg)
                                         /\ \A q \in CommandRuns : p # q + 3 })

\* C16's case: the diff command returned status 1 on a.py; PRINT then ran
\* on the file, and the run ended successfully with errors empty.
C16_Witness ==
    /\ actions = <<"DIFF", "PRINT">>
    /\ filenames = <<"a.py">>
    /\ \E p \in CommandRuns : trace[p].obj = 1 /\ trace[p].idx = 1
    /\ \E p \in EventsOf("outcome", 1) : trace[p].idx = 2 /\ trace[p].arg = "None"
    /\ stdout = <<"tidy">>
    /\ errors = <<>>
    /\ pc = "return"

\* the positions of the command line that hold an action option
ActionOptionsGiven ==
    { j \in 1..Len(parser.cmdline) : parser.cmdline[j] \in ShortcutOptions \cup ActionsOptions }

\* the action sequence an action option stands for
Denoted(option) ==
    IF option \in ShortcutOptions THEN Shortcut(option)
    ELSE [j \in 1..Len(option[2]) |-> parse_action(option[2][j])]

\* C17: when parse_args has returned, options.actions is, for a command line
\* without an action option, [PRINT] if neither standard input nor standard
\* output is a terminal and [IFCHANGED, DIFF, QUERY, REPLACE] if both are;
\* and for a command line with action options it is what the last of them
\* stands for, whatever the terminals are.
C17_DefaultActions ==
    parser.pc = "done" =>
      /\ actions = parser.actions
      /\ IF ActionOptionsGiven = {}
         THEN /\ parser.isatty = <<FALSE, FALSE>> => actions = <<"PRINT">>
              /\ parser.isatty = <<TRUE, TRUE>> =>
                   actions = <<"IFCHANGED", "DIFF", "QUERY", "REPLACE">>
         ELSE \E j \in ActionOptionsGiven :
                /\ \A k \in ActionOptionsGiven : k <= j
                /\ actions = Denoted(parser.cmdline[j])

\* C17's case: a command line with no action option (--verbose only), parsed
\* with both standard input and standard output a terminal.
C17_Witness ==
    /\ parser.pc = "done"
    /\ parser.cmdline = <<Flag("--verbose")>>
    /\ parser.isatty = <<TRUE, TRUE>>
    /\ actions = <<"IFCHANGED", "DIFF", "QUERY", "REPLACE">>

\* text begins with the tokens of part
IsPrefix(part, text) == Len(part) <= Len(text) /\ SubSeq(text, 1, Len(part)) = part

\* C18: in the end-of-run message, every entry of errors begins a line of its
\* own (a line of the message starts with the indentation and the entry's
\* first line), and every further line of an entry is a line of the message,
\* indented.
C18_SummaryLines ==
    summary # <<>> =>
      LET out == splitlines(summary)
      IN  \A k \in 1..Len(errors) :
            LET lines == splitlines(errors[k])
            IN  /\ \E n \in 1..Len(out) : IsPrefix(<<"    ">> \o lines[1], out[n])
                /\ \A j \in 2..Len(lines) :
                     \E n \in 1..Len(out) : out[n] = <<"            ">> \o lines[j]

\* the calls of an external-command action made so far, on any file
PathActionCalls ==
    { p \in 1..Len(trace) : trace[p].ev = "action" /\ trace[p].arg \in PathActions }

\* C19: os.environ['PATH'] of the process is what it was at the start
\* followed by one entry, the script's directory, for every call of a DIFF or
\* EXECUTE action made so far, on whichever file and whether or not the
\* command was run: the entries add up across actions and files.
C19_PathGrows ==
    PATH = <<"/usr/bin">> \o [j \in 1..Cardinality(PathActionCalls) |-> Bindir]

\* C19's case: DIFF and EXECUTE ran on two files; the PATH has four
\* appended entries.
C19_Witness ==
    /\ actions = <<"DIFF", "EXECUTE">>
    /\ Len(filenames) = 2
    /\ pc = "return"
    /\ Cardinality(CommandRuns) = 4
    /\ PATH = <<"/usr/bin", Bindir, Bindir, Bindir, Bindir>>

====
